---- MODULE Spec2Model ----
(***************************************************************************)
(* Model of the LDPC sum-product decoder of src/LDPC.py (class LDPC).      *)
(*                                                                         *)
(* Numbers.  Every likelihood ratio the decoder stores is the logarithm of *)
(* an odds ratio, and every operation the decoder applies to it is exact   *)
(* on odds ratios:                                                         *)
(*     x = ln(n/d)                 is held as the reduced pair <<n, d>>    *)
(*     x + x2                      is the product of the odds              *)
(*     tanh(x/2)                   is the fraction (n-d)/(n+d)             *)
(*     ln((1+p)/(1-p)), p = a/b    is the odds (b+a)/(b-a)                 *)
(*     x >= 0                      is n >= d                               *)
(* The IEEE values numpy produces are the degenerate pairs:                *)
(*     +inf = <<1,0>>   -inf = <<0,1>>   nan = <<0,0>>                     *)
(* so that inf + (-inf) = nan, inf + finite = inf, nan + x = nan, and      *)
(* log(2/0) = inf, log(0/2) = -inf fall out of the same arithmetic.        *)
(* Rounding of finite float64 values is not modelled.                      *)
(*                                                                         *)
(* Indices are 1-based here (0-based in the source).                       *)
(***************************************************************************)
EXTENDS Integers, Sequences, FiniteSets, TLC

\* ------------------------------------------------------------------ bounds
NumChecks == 2
NumVars == 2
MaxRuns == 2

Checks == 1..NumChecks
Vars == 1..NumVars

\* ------------------------------------------------------------ input sets
\* an error rate a/b is the pair <<a, b>>, b > 0
EpsVals == { <<0, 1>>, <<1, 4>>, <<1, 2>>, <<3, 4>>, <<1, 1>> }
\* the module-level name eps is not bound when LDPC.py is imported
Undefined == << >>
\* a value the module-level name eps was left bound to by earlier code
OtherEps == <<1, 4>>
\* what the module-level name eps can be when LDPC(H, y, e) is called: unbound,
\* the very value passed (as in the script at the end of LDPC.py), or another
ModuleEps(e) == {Undefined, e, OtherEps}
\* symbols of a received vector; 2 stands for any value other than 0 and 1
YVals == {0, 1, 2}
HSet == [Checks -> [Vars -> {0, 1}]]
YSet == [Vars -> YVals]
BinYSet == [Vars -> {0, 1}]
ValidEps == { <<1, 4>>, <<1, 2>>, <<3, 4>> }

\* ------------------------------------------------------------- arithmetic
NaN == <<0, 0>>
PosInf == <<1, 0>>
NegInf == <<0, 1>>
\* 0.0 = ln(1/1)
Zero == <<1, 1>>

Abs(x) == IF x < 0 THEN -x ELSE x

RECURSIVE GCD(_, _)
GCD(a, b) == IF b = 0 THEN a ELSE GCD(b, a % b)

\* the pair of n/d, n >= 0, d >= 0, reduced: n/0 is inf, 0/d is -inf, 0/0 nan
Norm(n, d) ==
    LET g == GCD(n, d)
    IN  IF g = 0 THEN NaN ELSE <<n \div g, d \div g>>

\* np.isfinite(x)
IsFinite(x) == x \notin {NaN, PosInf, NegInf}

\* np.log(n/d) for a ratio n/d, d # 0: nan below 0, -inf at 0
Log(n, d) == IF n * d < 0 THEN NaN ELSE Norm(Abs(n), Abs(d))

\* x + x2 on float64
Add(x, x2) == Norm(x[1] * x2[1], x[2] * x2[2])

\* np.tanh(x/2) as a signed fraction <<a, b>>, b > 0; <<0, 0>> is nan
Tanh2(x) ==
    IF x = NaN THEN <<0, 0>>
    ELSE LET a == x[1] - x[2]
             b == x[1] + x[2]
             g == GCD(Abs(a), b)
         IN  <<a \div g, b \div g>>

\* p * q on fractions
Mul(p, q) ==
    IF p[2] = 0 \/ q[2] = 0 THEN <<0, 0>>
    ELSE LET a == p[1] * q[1]
             b == p[2] * q[2]
             g == GCD(Abs(a), b)
         IN  <<a \div g, b \div g>>

\* np.log((1+p)/(1-p)): 2/0 is inf and log(inf) = inf, log(0/2) = -inf
LogRatio(p) == IF p[2] = 0 THEN NaN ELSE Norm(p[2] + p[1], p[2] - p[1])

\* x >= 0. on float64 (False for nan)
GeZero(x) == x # NaN /\ x[1] >= x[2]

Min(S) == CHOOSE x \in S : \A z \in S : x <= z

\* ------------------------------------------------------------------ state
VARIABLES
    H,          \* self.H: the parity-check matrix
    y,          \* self.y: the received vector
    eps,        \* self.eps: the error rate passed to the constructor
    runs,       \* self.runs: the iteration budget
    geps,       \* the module-level name eps that _initialize reads
    err,        \* the exception the constructor raised, "none" if it returned,
                \* "pending" before the constructor is called
    converged,  \* self.converged
    l,          \* self.l
    ch_liks,    \* self.ch_liks
    var_liks,   \* self.var_liks
    c2v_idx,    \* self.c2v_idx
    c2v_lik,    \* self.c2v_lik
    v2c_idx,    \* self.v2c_idx
    v2c_lik,    \* self.v2c_lik
    xpred,      \* self.xpred; << >> until _updatePred has assigned it
    pc,         \* where message_passing() stands
    out,        \* the line message_passing() printed last
    synd,       \* history: per executed round, whether H.xpred mod 2 was all-zero
    cur,        \* the node the outer for loop of the running round stands at
    todo,       \* the neighbours the inner for loop has still to visit
    written,    \* history: the messages assigned so far in this iteration
    prev_v2c,   \* history: v2c_lik as the previous iteration left it
    upd,        \* history: the update performed last
    reads       \* history: the messages the update performed last has read

\* the session
svars == <<H, y, eps, runs, geps, err, converged, l, ch_liks, var_liks,
           c2v_idx, c2v_lik, v2c_idx, v2c_lik, xpred, pc, out, synd>>
svars_but_pc == <<H, y, eps, runs, geps, err, converged, l, ch_liks, var_liks,
                  c2v_idx, c2v_lik, v2c_idx, v2c_lik, xpred, out, synd>>
\* the position inside a round, and the history of its reads and writes
evars == <<cur, todo, written, prev_v2c, upd, reads>>

vars == <<svars, evars>>

\* an attribute that was never assigned
Unset == << >>

\* -------------------------------------------------------------- _initialize
\* one element of the list comprehension of line 43, eps being the global g;
\* Python's float division raises on a zero divisor
ChLikRaises(yi, g) == IF yi = 0 THEN g[1] = 0 ELSE g[2] - g[1] = 0

\* the two branches exchanged
ChLikSwapped(yi, g) ==
    IF yi = 0 THEN Log(g[1], g[2] - g[1]) ELSE Log(g[2] - g[1], g[1])

ChLik(yi, g) ==
    IF yi = 0 THEN Log(g[2] - g[1], g[1]) ELSE Log(g[1], g[2] - g[1])

\* the exception __init__ ends with
InitError(yy, g) ==
    IF g = Undefined THEN "NameError"
    ELSE IF \E i \in Vars : ChLikRaises(yy[i], g) THEN "ZeroDivisionError"
    ELSE "none"

\* H1 = H*range(1,N+1)-1 keeps the (shifted) column index where H is non-zero
C2VIdx(h) == [c \in Checks |-> {h[c][v] * v : v \in Vars} \ {0}]

\* H2 = H.T*range(1,M+1)-1
V2CIdx(h) == [v \in Vars |-> {h[c][v] * c : c \in Checks} \ {0}]

\* --------------------------------------------------------- _check2variable
\* np.prod(np.tanh(p/2)) over the messages n -> c, n in Nx
RECURSIVE ProdTanh(_, _, _)
ProdTanh(Nx, v2c, c) ==
    IF Nx = {} THEN <<1, 1>>
    ELSE LET n == Min(Nx)
         IN  Mul(Tanh2(v2c[n][c]), ProdTanh(Nx \ {n}, v2c, c))

\* the message c -> v of lines 87-95
C2VMsg(v2c, c, v) == LogRatio(ProdTanh(c2v_idx[c] \ {v}, v2c, c))

\* for v in Nc: ... self.c2v_lik[c][v] = l
RECURSIVE C2VInner(_, _, _, _)
C2VInner(c2v, v2c, c, rest) ==
    IF rest = {} THEN c2v
    ELSE LET v == Min(rest)
         IN  C2VInner([c2v EXCEPT ![c][v] = C2VMsg(v2c, c, v)], v2c, c, rest \ {v})

\* for c in self.c2v_idx: ...
RECURSIVE C2VOuter(_, _, _)
C2VOuter(c2v, v2c, c) ==
    IF c > NumChecks THEN c2v
    ELSE C2VOuter(C2VInner(c2v, v2c, c, c2v_idx[c]), v2c, c + 1)

check2variable(c2v, v2c) == C2VOuter(c2v, v2c, 1)

\* --------------------------------------------------------- _variable2check
\* np.sum(np.array([self.c2v_lik[m][v] for m in Mx]))
RECURSIVE SumC2V(_, _, _)
SumC2V(Mx, c2v, v) ==
    IF Mx = {} THEN Zero
    ELSE LET m == Min(Mx)
         IN  Add(c2v[m][v], SumC2V(Mx \ {m}, c2v, v))

\* the message v -> c of line 112
V2CMsg(c2v, v, c) == Add(ch_liks[v], SumC2V(v2c_idx[v] \ {c}, c2v, v))

\* the belief of line 114
VarLik(c2v, v) == Add(ch_liks[v], SumC2V(v2c_idx[v], c2v, v))

\* for c in Mv: ... self.v2c_lik[v][c] = ...
RECURSIVE V2CInner(_, _, _, _)
V2CInner(v2c, c2v, v, rest) ==
    IF rest = {} THEN v2c
    ELSE LET c == Min(rest)
         IN  V2CInner([v2c EXCEPT ![v][c] = V2CMsg(c2v, v, c)], c2v, v, rest \ {c})

\* for v in self.v2c_idx: ... ; the state is the pair of v2c_lik and var_liks
RECURSIVE V2COuter(_, _, _)
V2COuter(st, c2v, v) ==
    IF v > NumVars THEN st
    ELSE V2COuter([v2c |-> V2CInner(st.v2c, c2v, v, v2c_idx[v]),
                   var |-> [st.var EXCEPT ![v] = VarLik(c2v, v)]], c2v, v + 1)

variable2check(v2c, var, c2v) == V2COuter([v2c |-> v2c, var |-> var], c2v, 1)

\* ------------------------------------------- _updatePred, _checkConvergence
updatePred(var) == [i \in Vars |-> IF GeZero(var[i]) THEN 0 ELSE 1]

RECURSIVE Dot(_, _, _)
Dot(row, x, n) == IF n = 0 THEN 0 ELSE row[n] * x[n] + Dot(row, x, n - 1)

\* np.dot(self.H, self.xpred) % 2
Syndrome(x) == [c \in Checks |-> Dot(H[c], x, NumVars) % 2]

RECURSIVE SumTo(_, _)
SumTo(s, n) == IF n = 0 THEN 0 ELSE s[n] + SumTo(s, n - 1)

\* the parity of the sum, not the sum of the parities
checkConvergenceParityOfSum(x) ==
    SumTo([c \in Checks |-> Dot(H[c], x, NumVars)], NumChecks) % 2 = 0

\* np.sum(np.dot(self.H, self.xpred)%2)==0.
checkConvergence(x) == SumTo(Syndrome(x), NumChecks) = 0

\* ---------------------------------------------------------- message_passing
\* the loop condition with the budget test off by one, upwards
LoopCondOneMore == l <= runs /\ ~converged

\* the loop condition with the budget test off by one, downwards
LoopCondOneLess == l + 1 < runs /\ ~converged

\* the loop condition without the convergence test
LoopCondBudgetOnly == l < runs

\* while self.l<self.runs and not self.converged
LoopCond == l < runs /\ ~converged

\* no session yet: LDPC(...) has not been called
Init ==
    /\ H = Unset /\ y = Unset /\ eps = Unset /\ runs = 0 /\ geps = Unset
    /\ err = "pending"
    /\ converged = FALSE
    /\ l = 0
    /\ xpred = Unset
    /\ pc = "new"
    /\ out = <<"none">>
    /\ synd = << >>
    /\ cur = 0 /\ todo = {} /\ written = {} /\ prev_v2c = Unset
    /\ upd = <<"none">> /\ reads = {}
    /\ ch_liks = Unset /\ var_liks = Unset
    /\ c2v_idx = Unset /\ c2v_lik = Unset
    /\ v2c_idx = Unset /\ v2c_lik = Unset

\* LDPC(h, yy, e, r) while the module-level name eps is g: __init__ and
\* _initialize, which either return the session or raise and leave none
Construct(h, yy, e, r, g) ==
    /\ pc = "new"
    /\ pc' = "idle"
    /\ H' = h /\ y' = yy /\ eps' = e /\ runs' = r /\ geps' = g
    /\ err' = InitError(yy, g)
    /\ converged' = FALSE
    /\ l' = 0
    /\ IF InitError(yy, g) = "none"
       THEN /\ ch_liks' = [i \in Vars |-> ChLik(yy[i], g)]
            /\ var_liks' = [i \in Vars |-> ChLik(yy[i], g)]
            /\ c2v_idx' = C2VIdx(h)
            /\ c2v_lik' = [c \in Checks |-> [v \in C2VIdx(h)[c] |-> Zero]]
            /\ v2c_idx' = V2CIdx(h)
            /\ v2c_lik' = [v \in Vars |-> [c \in V2CIdx(h)[v] |-> ChLik(yy[v], g)]]
       ELSE UNCHANGED <<ch_liks, var_liks, c2v_idx, c2v_lik, v2c_idx, v2c_lik>>
    /\ UNCHANGED <<xpred, out, synd>>
    /\ UNCHANGED evars

\* any arguments
New ==
    /\ pc = "new"
    /\ \E h \in HSet, yy \in YSet, e \in EpsVals, r \in 1..MaxRuns :
         \E g \in ModuleEps(e) : Construct(h, yy, e, r, g)

\* the arguments the interface allows: y binary, eps in (0,1), runs >= 1
NewValid ==
    /\ pc = "new"
    /\ \E h \in HSet, yy \in BinYSet, e \in ValidEps, r \in 1..MaxRuns :
         \E g \in ModuleEps(e) : Construct(h, yy, e, r, g)

\* the script at the end of LDPC.py: the module-level eps is the one passed
NewScript ==
    /\ pc = "new"
    /\ \E h \in HSet, yy \in BinYSet, e \in ValidEps :
         Construct(h, yy, e, MaxRuns, e)

\* a caller invokes message_passing() on a constructed session
Call ==
    /\ err = "none"
    /\ pc = "idle"
    /\ pc' = "loop"
    /\ UNCHANGED <<H, y, eps, runs, geps, err, converged, l, ch_liks, var_liks,
                   c2v_idx, c2v_lik, v2c_idx, v2c_lik, xpred, out, synd>>
    /\ UNCHANGED evars

\* one pass through the body of the while loop, lines 138-147; each call's
\* result is bound once
Round ==
    /\ pc = "loop"
    /\ LoopCond
    /\ \E c2 \in {check2variable(c2v_lik, v2c_lik)} :
       \E st \in {variable2check(v2c_lik, var_liks, c2)} :
       \E x \in {updatePred(st.var)} :
           /\ c2v_lik' = c2
           /\ v2c_lik' = st.v2c
           /\ var_liks' = st.var
           /\ xpred' = x
           /\ converged' = checkConvergence(x)
           /\ synd' = Append(synd, \A c \in Checks : Syndrome(x)[c] = 0)
    /\ l' = l + 1
    /\ UNCHANGED <<H, y, eps, runs, geps, err, ch_liks, c2v_idx, v2c_idx, pc, out>>
    /\ UNCHANGED evars

\* the loop condition fails: lines 150-153 print the outcome and the call returns
Return ==
    /\ pc = "loop"
    /\ ~LoopCond
    /\ out' = IF converged THEN <<"Successfully converged", l>>
                           ELSE <<"Failed to converged", runs>>
    /\ pc' = "idle"
    /\ UNCHANGED <<H, y, eps, runs, geps, err, converged, l, ch_liks, var_liks,
                   c2v_idx, c2v_lik, v2c_idx, v2c_lik, xpred, synd>>
    /\ UNCHANGED evars

\* --------------------------------------- the loop body, one update at a time
\* Python leaves the iteration order of a set open, so the inner loops
\* (for v in Nc, for c in Mv) visit the neighbours in any order; the outer
\* loops follow the dicts' insertion order.

\* the messages of the check-to-variable family
AllC2V == UNION {{<<"c2v", c, v>> : v \in c2v_idx[c]} : c \in Checks}

\* _check2variable returns after its first check
C2VRoundDoneEarly(c) == c >= 1

\* for c in self.c2v_idx is exhausted after check c: _check2variable returns
C2VRoundDone(c) == c = NumChecks

\* the loop condition holds: the body starts with _check2variable()
Enter ==
    /\ pc = "loop"
    /\ LoopCond
    /\ pc' = "c2v"
    /\ cur' = 1
    /\ todo' = c2v_idx[1]
    /\ written' = {}
    /\ prev_v2c' = v2c_lik
    /\ upd' = <<"none">>
    /\ reads' = {}
    /\ UNCHANGED svars_but_pc

\* lines 85-97 for one v of Nc
C2VEdge ==
    /\ pc = "c2v"
    /\ \E v \in todo :
        /\ c2v_lik' = [c2v_lik EXCEPT ![cur][v] = C2VMsg(v2c_lik, cur, v)]
        /\ todo' = todo \ {v}
        /\ written' = written \cup {<<"c2v", cur, v>>}
        /\ upd' = <<"c2v", cur, v>>
        /\ reads' = {<<"v2c", n, cur>> : n \in c2v_idx[cur] \ {v}}
    /\ UNCHANGED <<H, y, eps, runs, geps, err, converged, l, ch_liks, var_liks,
                   c2v_idx, v2c_idx, v2c_lik, xpred, pc, out, synd>>
    /\ UNCHANGED <<cur, prev_v2c>>

\* the inner loop of a check is done: the next check, or _variable2check()
C2VNext ==
    /\ pc = "c2v"
    /\ todo = {}
    /\ IF C2VRoundDone(cur)
       THEN /\ pc' = "v2c"
            /\ cur' = 1
            /\ todo' = v2c_idx[1]
       ELSE /\ pc' = pc
            /\ cur' = cur + 1
            /\ todo' = c2v_idx[cur + 1]
    /\ UNCHANGED <<written, prev_v2c, upd, reads>>
    /\ UNCHANGED svars_but_pc

\* lines 108-112 for one c of Mv
V2CEdge ==
    /\ pc = "v2c"
    /\ \E c \in todo :
        /\ v2c_lik' = [v2c_lik EXCEPT ![cur][c] = V2CMsg(c2v_lik, cur, c)]
        /\ todo' = todo \ {c}
        /\ written' = written \cup {<<"v2c", cur, c>>}
        /\ upd' = <<"v2c", cur, c>>
        /\ reads' = {<<"c2v", m, cur>> : m \in v2c_idx[cur] \ {c}}
    /\ UNCHANGED <<H, y, eps, runs, geps, err, converged, l, ch_liks, var_liks,
                   c2v_idx, c2v_lik, v2c_idx, xpred, pc, out, synd>>
    /\ UNCHANGED <<cur, prev_v2c>>

\* line 114 for the variable, then the next variable, or _updatePred()
V2CNext ==
    /\ pc = "v2c"
    /\ todo = {}
    /\ var_liks' = [var_liks EXCEPT ![cur] = VarLik(c2v_lik, cur)]
    /\ upd' = <<"var", cur>>
    /\ reads' = {<<"c2v", m, cur>> : m \in v2c_idx[cur]}
    /\ IF cur = NumVars
       THEN /\ pc' = "end"
            /\ cur' = 0
            /\ todo' = {}
       ELSE /\ pc' = pc
            /\ cur' = cur + 1
            /\ todo' = v2c_idx[cur + 1]
    /\ UNCHANGED <<H, y, eps, runs, geps, err, converged, l, ch_liks,
                   c2v_idx, c2v_lik, v2c_idx, v2c_lik, xpred, out, synd>>
    /\ UNCHANGED <<written, prev_v2c>>

\* lines 143-147: _updatePred(), _checkConvergence(), self.l += 1
EndRound ==
    /\ pc = "end"
    /\ \E x \in {updatePred(var_liks)} :
           /\ xpred' = x
           /\ converged' = checkConvergence(x)
           /\ synd' = Append(synd, \A c \in Checks : Syndrome(x)[c] = 0)
    /\ l' = l + 1
    /\ pc' = "loop"
    /\ UNCHANGED <<H, y, eps, runs, geps, err, ch_liks, var_liks,
                   c2v_idx, c2v_lik, v2c_idx, v2c_lik, out>>
    /\ UNCHANGED evars

Next == New \/ Call \/ Round \/ Return

NextValid == NewValid \/ Call \/ Round \/ Return

NextEdge ==
    \/ NewScript \/ Call \/ Enter \/ C2VEdge \/ C2VNext \/ V2CEdge \/ V2CNext
    \/ EndRound \/ Return

\* every argument, valid or not
Spec == Init /\ [][Next]_vars

\* valid arguments only
SpecValid == Init /\ [][NextValid]_vars

\* the steps of NextValid that are a Round, and those that are a Return, told
\* by what only they change
RoundStep == pc = "loop" /\ LoopCond /\ l' = l + 1

ReturnStep == pc = "loop" /\ ~LoopCond /\ pc' = "idle"

\* valid arguments; a call that has started runs on: the loop body and the
\* return are steps of one sequential call, whereas nobody has to call
FairSpec ==
    Init /\ [][NextValid]_vars /\ WF_l(RoundStep) /\ WF_pc(ReturnStep)

\* the script's arguments, the loop body taken one update at a time
SpecEdge == Init /\ [][NextEdge]_vars

\* ------------------------------------------------------------------ claims
\* H . x mod 2 is the all-zero vector
SyndromeZero(x) == \A c \in Checks : Dot(H[c], x, NumVars) % 2 = 0

\* message_passing() has returned at least once
Returned == pc = "idle" /\ out # <<"none">>

\* C1: at the end of every round and after message_passing() returns, converged
\* is true if and only if (H . xpred) mod 2 is the all-zero vector.
ConvergedIffSyndromeZero ==
    (err = "none" /\ l >= 1) => (converged <=> SyndromeZero(xpred))

\* C1 witness: a returned call that converged in its second round, the first
\* round having ended with a non-zero syndrome and converged = FALSE
ConvergedIffSyndromeZeroWitness ==
    /\ Returned /\ converged /\ l = 2
    /\ synd = <<FALSE, TRUE>>
    /\ SyndromeZero(xpred)

\* C2: in every state reachable from construction through any number of calls,
\* 0 <= l <= runs; l starts at 0 and grows by exactly 1 per executed round
\* (synd holds one entry per executed round).
CounterWithinBudget ==
    err = "none" => (0 <= l /\ l <= runs /\ l = Len(synd))

\* C2 witness: a second call on a session that has used up its whole budget
CounterWithinBudgetWitness ==
    pc = "loop" /\ out # <<"none">> /\ l = runs /\ runs = MaxRuns /\ ~converged

\* every check has a variable and every variable a check: no isolated node
NoIsolatedNode ==
    /\ \A c \in Checks : \E v \in Vars : H[c][v] = 1
    /\ \A v \in Vars : \E c \in Checks : H[c][v] = 1

\* y is binary and satisfies every parity constraint
IsCodeword(yy) == yy \in BinYSet /\ \A c \in Checks : Dot(H[c], yy, NumVars) % 2 = 0

\* C3 as claimed: for every eps in (0,1) and every y with (H . y) mod 2 = 0,
\* decoding ends converged with xpred = y after the first round.  (Stated for
\* the sessions whose module-level eps is the eps passed, so that what C6
\* reports plays no part, and for graphs without isolated nodes.)
CodewordDecodedInFirstRound ==
    (err = "none" /\ eps \in ValidEps /\ geps = eps /\ NoIsolatedNode
       /\ IsCodeword(y) /\ l >= 1)
        => (converged /\ xpred = y /\ l = 1)

\* C3 amended: the same, when the eps that _initialize reads lies in (0, 1/2),
\* that is, when a received 0 has a positive channel LLR.
CodewordDecodedInFirstRoundBelowHalf ==
    (err = "none" /\ geps[1] > 0 /\ 2 * geps[1] < geps[2] /\ IsCodeword(y) /\ l >= 1)
        => (converged /\ xpred = y /\ l = 1)

\* C3 witness: a non-zero codeword over a check of degree 2, decoded and returned
CodewordDecodedInFirstRoundWitness ==
    /\ Returned /\ geps = <<1, 4>> /\ IsCodeword(y)
    /\ \E c \in Checks : Cardinality(c2v_idx[c]) >= 2 /\ \E v \in c2v_idx[c] : y[v] = 1
    /\ converged /\ xpred = y /\ l = 1

\* the two outcomes of a returned call
OutcomeConverged ==
    /\ converged /\ 1 <= l /\ l <= runs
    /\ synd[l] /\ \A k \in 1..(l - 1) : ~synd[k]
    /\ out = <<"Successfully converged", l>>

OutcomeExhausted ==
    /\ ~converged /\ l = runs
    /\ \A k \in 1..l : ~synd[k]
    /\ out = <<"Failed to converged", runs>>

\* C4: message_passing() always terminates, in exactly one of two outcomes:
\* CONVERGED (converged, l <= R, l the first round with an all-zero syndrome) or
\* EXHAUSTED (not converged, l = R); non-convergence is never reported with
\* fewer than R rounds performed.
TerminatesConvergedOrExhausted ==
    /\ [](Returned => (OutcomeConverged \/ OutcomeExhausted))
    /\ ((pc = "loop") ~> (pc = "idle"))

\* C4 witness: a call returned EXHAUSTED after both rounds of a budget of 2
TerminatesConvergedOrExhaustedWitness ==
    Returned /\ OutcomeExhausted /\ runs = 2 /\ synd = <<FALSE, FALSE>>

\* C5: once converged, no further round executes: any later step, a later call
\* to message_passing() included, leaves l, c2v_lik, v2c_lik, var_liks, xpred
\* and converged unchanged.
ConvergedIsTerminal ==
    [][converged => UNCHANGED <<l, c2v_lik, v2c_lik, var_liks, xpred, converged>>]_vars

\* C5 witness: a later call on a converged session that has budget left
ConvergedIsTerminalWitness ==
    pc = "loop" /\ out # <<"none">> /\ converged /\ l < runs

\* C6 as claimed: the channel LLRs are a function of the session's own y and
\* eps alone: construction with valid arguments succeeds whatever the module
\* holds, and ch_liks[i] is ln((1-eps)/eps) if y[i] = 0 else ln(eps/(1-eps))
\* for the eps passed to LDPC(H, y, eps).
ChannelLLRsFromOwnEps ==
    (pc # "new" /\ eps \in ValidEps /\ y \in BinYSet)
        => (err = "none" /\ ch_liks = [i \in Vars |-> ChLik(y[i], eps)])

\* C7 as claimed (any exception counted as the rejection): eps <= 0 or eps >= 1
\* is rejected at construction; no round runs, l stays 0, no message state.
EpsOutOfRangeRejected ==
    (pc # "new" /\ (eps[1] <= 0 \/ eps[1] >= eps[2]))
        => (err # "none" /\ l = 0 /\ c2v_lik = Unset /\ v2c_lik = Unset)

\* C8 as claimed: a received vector holding a value other than 0 or 1 is
\* rejected at construction, before any round runs.
NonBinaryReceivedRejected ==
    (pc # "new" /\ \E i \in Vars : y[i] \notin {0, 1}) => (err # "none" /\ l = 0)

\* C9: flooding schedule.  Every check-to-variable update reads only
\* variable-to-check messages, none of them assigned in this iteration, and
\* leaves the value computed from the messages the previous iteration left;
\* every variable-to-check update and every belief update reads only
\* check-to-variable messages, all assigned in this iteration, whose
\* check-to-variable round is complete; for every order of the inner loops.
FloodingSchedule ==
    /\ upd[1] = "c2v" =>
          \A r \in reads : r[1] = "v2c" /\ r \notin written
    /\ upd[1] \in {"v2c", "var"} =>
          /\ \A r \in reads : r[1] = "c2v" /\ r \in written
          /\ AllC2V \subseteq written
    /\ \A w \in written :
          /\ w[1] = "c2v" => c2v_lik[w[2]][w[3]] = C2VMsg(prev_v2c, w[2], w[3])
          /\ w[1] = "v2c" => /\ AllC2V \subseteq written
                             /\ v2c_lik[w[2]][w[3]] = V2CMsg(c2v_lik, w[2], w[3])

\* C9 witness: in a second iteration, a variable-to-check update that has read
\* a check-to-variable message, after an update of the same variable
FloodingScheduleWitness ==
    /\ pc = "v2c" /\ l = 1 /\ upd[1] = "v2c" /\ reads # {}
    /\ \E w \in written : w[1] = "v2c" /\ w[2] = upd[2] /\ w # upd

\* C10 as claimed: for all valid inputs, a check node of degree 1 included,
\* every check-to-variable message, every variable-to-check message and every
\* belief is finite in every reachable state.  (Stated for the sessions whose
\* module-level eps is the eps passed and for graphs without isolated nodes.)
AllMessagesFinite ==
    (err = "none" /\ geps = eps /\ NoIsolatedNode) =>
        /\ \A c \in Checks : \A v \in c2v_idx[c] : IsFinite(c2v_lik[c][v])
        /\ \A v \in Vars : \A c \in v2c_idx[v] : IsFinite(v2c_lik[v][c])
        /\ \A v \in Vars : IsFinite(var_liks[v])

====
